---- MODULE Spec2Model ----
(***************************************************************************)
(* The snake game of src/gluttonous_snake/src/components/                  *)
(* gluttonous_snake.tsx (the SnakeGame component) as a state machine.      *)
(*                                                                         *)
(* The state is the component's React state (snake, foods, direction,      *)
(* score, gameStarted, gameOver, countdown, hasMoved) and the countdown    *)
(* interval held in countdownTimerRef.  Every handler is one action: the   *)
(* start button (startGame), one firing of the countdown interval, one     *)
(* firing of the game-loop interval (moveSnake), a keydown event           *)
(* (handleKeyPress) and a click on an on-screen direction button           *)
(* (ControlButtons, wired to setDirection).  Handlers run one at a time    *)
(* and each one reads the state of the latest render: the effects          *)
(* re-create the interval and the keydown listener whenever a callback     *)
(* changes.  A state updater runs once per call, as in a production build  *)
(* (a development build under StrictMode runs the updater of moveSnake     *)
(* twice, and with it the setScore and setFoods calls inside it).          *)
(*                                                                         *)
(* Math.random is a nondeterministic choice.  The cells and the food       *)
(* counts it is let to pick in a run are parameters of the actions that    *)
(* spawn food.  mounted tells whether the component is still mounted; the  *)
(* unmount is an action of the teardown specification.                     *)
(***************************************************************************)
EXTENDS Integers, Sequences, FiniteSets

\* ------------------------------------------------------------ constants
GRID_SIZE == 20

INITIAL_FOOD_COUNT == 3

MAX_FOOD_COUNT == 10

\* The value of countdown set by useState and by startGame.
COUNTDOWN_START == 3

\* The coordinate of the first segment set by useState and by startGame.
START_COORD == 10

\* ------------------------------------------------------------ bounds
\* The random cells of the full game lie on the start row, in the columns
\* START_COORD .. START_COORD + SpawnSpan.
SpawnSpan == 2

\* Direction inputs are explored while the head is within this many steps
\* of the start cell; further out the snake runs straight on.
InputRadius == 1

\* The full game explores eating ticks while the score is below this.
MaxScore == 2

\* ------------------------------------------------------------ data
Pos(x, y) == [x |-> x, y |-> y]

Grid == {Pos(x, y) : x \in 0..(GRID_SIZE - 1), y \in 0..(GRID_SIZE - 1)}

StartCell == Pos(START_COORD, START_COORD)

\* getRandomDirection: the four unit vectors.
Directions == {Pos(1, 0), Pos(-1, 0), Pos(0, 1), Pos(0, -1)}

getOppositeDirection(d) == Pos(-d.x, -d.y)

Keys == {"ArrowUp", "ArrowDown", "ArrowLeft", "ArrowRight", "Other"}

\* The set of the elements of a sequence.
Range(s) == {s[i] : i \in 1..Len(s)}

\* Array.prototype.slice(0, -1): all but the last element.
DropLast(s) == SubSeq(s, 1, Len(s) - 1)

\* Array.prototype.findIndex, 1-based; 0 stands for -1 (not found).
findIndex(s, p) ==
  IF p \in Range(s)
  THEN CHOOSE i \in 1..Len(s) : s[i] = p /\ \A j \in 1..(i - 1) : s[j] # p
  ELSE 0

\* Array.prototype.splice(i, 1) on a copy: the sequence without element i.
RemoveAt(s, i) == SubSeq(s, 1, i - 1) \o SubSeq(s, i + 1, Len(s))

\* The results getRandomPosition(occupied) can return when Math.random
\* ranges over the cells R: any cell of R that is not occupied.
getRandomPosition(occupied, R) == {p \in R : p \notin Range(occupied)}

\* The arrays of n cells, each an independent getRandomPosition(occupied).
RandomPositions(n, occupied, R) == [1..n -> getRandomPosition(occupied, R)]

\* The cells Math.random picks in the full game.
SpawnCells == {Pos(x, START_COORD) : x \in START_COORD..(START_COORD + SpawnSpan)} \cap Grid

\* The cells Math.random picks after an eating tick of the straight run: the
\* start row from the start cell to the right wall.
RowCells == {Pos(x, START_COORD) : x \in START_COORD..(GRID_SIZE - 1)}

\* ------------------------------------------------------------ state
VARIABLES snake, foods, direction, score, gameStarted, gameOver, countdown,
          hasMoved, countdownTimer, mounted

vars == <<snake, foods, direction, score, gameStarted, gameOver, countdown,
          hasMoved, countdownTimer, mounted>>

\* The state of the first render: useState's initial values, no timer.
Init ==
  /\ snake = <<StartCell>>
  /\ foods = <<>>
  /\ direction \in Directions
  /\ score = 0
  /\ gameStarted = FALSE
  /\ gameOver = FALSE
  /\ countdown = COUNTDOWN_START
  /\ hasMoved = FALSE
  /\ countdownTimer = FALSE
  /\ mounted = TRUE

\* A faulty game-loop effect: the countdown is not looked at.
GameLoopActive_NoCountdown == mounted /\ gameStarted /\ ~gameOver

\* The game-loop effect: the interval calling moveSnake exists exactly while
\* this holds (the effect's cleanup clears it on every change and on unmount).
GameLoopActive == mounted /\ gameStarted /\ ~gameOver /\ countdown = 0

\* ------------------------------------------------------------ operations
\* A faulty initializeFoods: the loop runs one time too few.
initializeFoods_OneShort(R) == RandomPositions(INITIAL_FOOD_COUNT - 1, snake, R)

\* initializeFoods: INITIAL_FOOD_COUNT cells, each free of the snake of the
\* render the callback was made in.
initializeFoods(R) == RandomPositions(INITIAL_FOOD_COUNT, snake, R)

\* startGame, the click on the start button, which is rendered while the
\* game has not started or is over.
startGame(R) ==
  /\ mounted
  /\ ~gameStarted \/ gameOver
  /\ snake' = <<StartCell>>
  /\ direction' \in Directions
  /\ gameOver' = FALSE
  /\ score' = 0
  /\ gameStarted' = TRUE
  /\ countdown' = COUNTDOWN_START
  /\ hasMoved' = FALSE
  /\ foods' \in initializeFoods(R)
  /\ countdownTimer' = TRUE
  /\ UNCHANGED mounted

\* A faulty countdown callback: it stops the interval one firing late.
CountdownTick_LateStop ==
  /\ countdownTimer
  /\ countdown' = IF countdown > 0 THEN countdown - 1 ELSE 0
  /\ countdownTimer' = (countdown > 0)
  /\ UNCHANGED <<snake, foods, direction, score, gameStarted, gameOver, hasMoved,
                 mounted>>

\* One firing of the countdown interval started by startGame.  Nothing but
\* the callback itself and the next startGame clears this interval.
CountdownTick ==
  /\ countdownTimer
  /\ countdown' = IF countdown > 1 THEN countdown - 1 ELSE 0
  /\ countdownTimer' = (countdown > 1)
  /\ UNCHANGED <<snake, foods, direction, score, gameStarted, gameOver, hasMoved,
                 mounted>>

\* A faulty new head: the y step is taken backwards.
NewHead_YFlipped == Pos(snake[1].x + direction.x, snake[1].y - direction.y)

\* moveSnake: the new head, the head moved one cell in the direction.
NewHead == Pos(snake[1].x + direction.x, snake[1].y + direction.y)

\* A faulty wall test: the upper limits are off by one.
HitsWall_OffByOne(h) == h.x < 0 \/ h.x > GRID_SIZE \/ h.y < 0 \/ h.y > GRID_SIZE

\* moveSnake: the new head is outside the grid.
HitsWall(h) == h.x < 0 \/ h.x >= GRID_SIZE \/ h.y < 0 \/ h.y >= GRID_SIZE

\* A faulty self test: the tail, which is about to move, is not looked at.
HitsSelf_TailFree(h) == h \in Range(DropLast(snake))

\* A faulty self test: the test is left out.
HitsSelf_Missing(h) == FALSE

\* moveSnake: the new head is on a segment of the snake before the move.
HitsSelf(h) == h \in Range(snake)

\* A faulty move: the tail is kept on every tick.
MovedSnake_TailKept(newHead) == <<newHead>> \o snake

\* moveSnake: newSnake, the snake moved one cell (the tail is dropped).
MovedSnake(newHead) == <<newHead>> \o DropLast(snake)

\* A faulty eating tick: it returns newSnake, which has dropped the tail.
GrownSnake_TailDropped(newHead) == MovedSnake(newHead)

\* moveSnake: the snake returned by an eating tick (the tail is kept).
GrownSnake(newHead) == <<newHead>> \o snake

\* A faulty eating tick: the eaten food is removed and none is added.
FoodsAfterEating_NoneAdded(i, newSnake, R, N) == {RemoveAt(foods, i)}

\* moveSnake: the foods after the food at index i was eaten.  One or two
\* foods (a count of N) are added when fewer than MAX_FOOD_COUNT are left,
\* each on a cell free of the remaining foods and of newSnake.
FoodsAfterEating(i, newSnake, R, N) ==
  LET newFoods == RemoveAt(foods, i)
  IN IF Len(newFoods) < MAX_FOOD_COUNT
     THEN {newFoods \o a : a \in UNION {RandomPositions(n, newFoods \o newSnake, R) : n \in N}}
     ELSE {newFoods}

\* moveSnake, one firing of the game-loop interval.  Math.random picks
\* cells of R and a count of N; eating ticks are explored while the score is
\* below cap.
moveSnake(R, N, cap) ==
  /\ GameLoopActive
  /\ LET newHead == NewHead
         newSnake == MovedSnake(newHead)
         foodIndex == findIndex(foods, newHead)
     IN IF HitsWall(newHead) \/ HitsSelf(newHead)
        THEN /\ gameOver' = TRUE
             /\ UNCHANGED <<snake, foods, score, hasMoved>>
        ELSE IF foodIndex # 0
        THEN /\ score < cap
             /\ score' = score + 1
             /\ foods' \in FoodsAfterEating(foodIndex, newSnake, R, N)
             /\ hasMoved' = FALSE
             /\ snake' = GrownSnake(newHead)
             /\ UNCHANGED gameOver
        ELSE /\ hasMoved' = FALSE
             /\ snake' = newSnake
             /\ UNCHANGED <<foods, score, gameOver>>
  /\ UNCHANGED <<direction, gameStarted, countdown, countdownTimer, mounted>>

\* handleKeyPress: the direction a key stands for.
KeyDirection(key) ==
  CASE key = "ArrowUp" -> Pos(0, -1)
    [] key = "ArrowDown" -> Pos(0, 1)
    [] key = "ArrowLeft" -> Pos(-1, 0)
    [] key = "ArrowRight" -> Pos(1, 0)
    [] OTHER -> direction

\* A faulty handleKeyPress: an accepted change does not set hasMoved.
handleKeyPress_NoFlag(key) ==
  /\ mounted
  /\ IF gameOver \/ countdown > 0 \/ hasMoved
     THEN UNCHANGED <<direction, hasMoved>>
     ELSE LET newDirection == KeyDirection(key)
          IN IF newDirection # getOppositeDirection(direction)
             THEN direction' = newDirection /\ UNCHANGED hasMoved
             ELSE UNCHANGED <<direction, hasMoved>>
  /\ UNCHANGED <<snake, foods, score, gameStarted, gameOver, countdown, countdownTimer,
                 mounted>>

\* handleKeyPress, a keydown event on the window; the listener is removed
\* on unmount.
handleKeyPress(key) ==
  /\ mounted
  /\ IF gameOver \/ countdown > 0 \/ hasMoved
     THEN UNCHANGED <<direction, hasMoved>>
     ELSE LET newDirection == KeyDirection(key)
          IN IF newDirection # getOppositeDirection(direction)
             THEN direction' = newDirection /\ hasMoved' = TRUE
             ELSE UNCHANGED <<direction, hasMoved>>
  /\ UNCHANGED <<snake, foods, score, gameStarted, gameOver, countdown, countdownTimer,
                 mounted>>

\* A click on an on-screen direction button: onDirectionChange is setDirection.
onDirectionChange(d) ==
  /\ mounted
  /\ direction' = d
  /\ UNCHANGED <<snake, foods, score, gameStarted, gameOver, countdown, hasMoved,
                 countdownTimer, mounted>>

\* The component is unmounted.  The cleanups of the effects clear the
\* game-loop interval and remove the keydown listener; the countdown
\* interval has no cleanup and stays set.
Unmount ==
  /\ mounted
  /\ mounted' = FALSE
  /\ UNCHANGED <<snake, foods, direction, score, gameStarted, gameOver, countdown,
                 hasMoved, countdownTimer>>

\* The counts Math.floor(Math.random() * 2) + 1 gives.
FoodCounts == {1, 2}

\* The model's bound on when the player gives input: the head is within
\* InputRadius steps of the start cell.
Dist(a, b) == (IF a > b THEN a - b ELSE b - a)

NearStart == Dist(snake[1].x, START_COORD) + Dist(snake[1].y, START_COORD) <= InputRadius

\* ------------------------------------------------------------ the full game
StartGame == startGame(SpawnCells)

Tick == moveSnake(SpawnCells, FoodCounts, MaxScore)

KeyDown == NearStart /\ \E key \in Keys : handleKeyPress(key)

ButtonClick == NearStart /\ \E d \in Directions : onDirectionChange(d)

Next == StartGame \/ CountdownTick \/ Tick \/ KeyDown \/ ButtonClick

Spec == Init /\ [][Next]_vars

\* ------------------------------------------------------------ keyboard only
\* The full game played with the keyboard alone.
NextKeys == StartGame \/ CountdownTick \/ Tick \/ KeyDown

SpecKeys == Init /\ [][NextKeys]_vars

\* The same with the countdown interval firing as long as it is set:
\* setInterval calls the callback every second until it is cleared.
SpecKeysFair == SpecKeys /\ WF_vars(CountdownTick)

\* ------------------------------------------------------------ teardown
\* The full game, with the component unmounted at any moment.
NextTeardown == Next \/ Unmount

SpecTeardown == Init /\ [][NextTeardown]_vars

\* ------------------------------------------------------------ the straight run
\* One game with no direction input: the snake runs straight on from the
\* start cell.  Math.random picks the first foods as in the full game and
\* the later ones anywhere on the start row from the start cell on.
StartRun == ~gameStarted /\ startGame(SpawnCells)

TickRun == moveSnake(RowCells, FoodCounts, GRID_SIZE * GRID_SIZE)

NextRun == StartRun \/ CountdownTick \/ TickRun

SpecRun == Init /\ [][NextRun]_vars

\* ------------------------------------------------------------ the tour
\* A player who steers the snake along a closed tour of the whole grid:
\* right along row 0, then down the columns 1 .. GRID_SIZE - 1 row by row
\* (odd rows leftwards, even rows rightwards), then up column 0.
TourNext(p) ==
  IF p.y = 0
  THEN (IF p.x < GRID_SIZE - 1 THEN Pos(p.x + 1, 0) ELSE Pos(p.x, 1))
  ELSE IF p.x = 0
  THEN Pos(0, p.y - 1)
  ELSE IF p.y % 2 = 1
  THEN (IF p.x > 1 THEN Pos(p.x - 1, p.y)
        ELSE IF p.y = GRID_SIZE - 1 THEN Pos(0, p.y) ELSE Pos(1, p.y + 1))
  ELSE (IF p.x < GRID_SIZE - 1 THEN Pos(p.x + 1, p.y) ELSE Pos(p.x, p.y + 1))

\* The arrow key towards the next cell of the tour.
TourKey ==
  LET n == TourNext(snake[1])
  IN CHOOSE key \in Keys \ {"Other"} :
       (CASE key = "ArrowUp" -> Pos(0, -1)
          [] key = "ArrowDown" -> Pos(0, 1)
          [] key = "ArrowLeft" -> Pos(-1, 0)
          [] OTHER -> Pos(1, 0)) = Pos(n.x - snake[1].x, n.y - snake[1].y)

\* The player presses the key of the tour when the snake heads elsewhere.
KeyTour == KeyDirection(TourKey) # direction /\ handleKeyPress(TourKey)

\* Math.random puts the first foods on the first cell of the tour.
StartTour == startGame({TourNext(StartCell)})

\* The player is in time: a tick finds the direction of the tour, unless the
\* handler turns the key of the tour down as a reversal.  Math.random adds
\* one food, on the cell of the tour after the new head.
TickTour ==
  /\ KeyDirection(TourKey) \in {direction, getOppositeDirection(direction)}
  /\ moveSnake({TourNext(NewHead)}, {1}, GRID_SIZE * GRID_SIZE)

NextTour == StartTour \/ CountdownTick \/ TickTour \/ KeyTour

SpecTour == Init /\ [][NextTour]_vars

\* ------------------------------------------------------------ properties
\* The head plus the direction, written out.
Ahead == Pos(snake[1].x + direction.x, snake[1].y + direction.y)

AheadInGrid == Ahead.x >= 0 /\ Ahead.x < GRID_SIZE /\ Ahead.y >= 0 /\ Ahead.y < GRID_SIZE

AheadOnSnake == \E i \in 1..Len(snake) : snake[i] = Ahead

AheadOnFood == \E i \in 1..Len(foods) : foods[i] = Ahead

\* A step of an input handler, from either input source.
DirectionInput == KeyDown \/ ButtonClick

\* C1: in every reachable state the number of foods on the board is at
\* least 0 and at most MAX_FOOD_COUNT (10).
C1_FoodCountWithinMax == Len(foods) >= 0 /\ Len(foods) <= MAX_FOOD_COUNT

\* C2: no single direction input, from the keyboard or from an on-screen
\* button, replaces the current direction by its exact opposite.
C2_InputNeverReverses ==
  [][DirectionInput =>
       ~(direction'.x = -direction.x /\ direction'.y = -direction.y)]_vars

\* C3: a tick whose new head is inside the grid, off the snake and on a food
\* raises the score by exactly 1, lengthens the snake by exactly 1 (the new
\* head is put in front, the tail is kept) and puts the head on the food's cell.
C3_EatingTickGrows ==
  [][(Tick /\ AheadInGrid /\ ~AheadOnSnake /\ AheadOnFood) =>
       /\ score' = score + 1
       /\ Len(snake') = Len(snake) + 1
       /\ snake'[1] = Ahead
       /\ \A i \in 1..Len(snake) : snake'[i + 1] = snake[i]]_vars

\* C3's case has happened: the snake at (10,10) moved right onto the food at
\* (11,10), which gives score 1, length 2 and the head on (11,10).
C3_Witness ==
  /\ score = 1
  /\ snake = <<Pos(11, 10), Pos(10, 10)>>
  /\ direction = Pos(1, 0)
  /\ ~gameOver

\* C4: after a tick that does not collide (new head inside the grid and on
\* no segment of the snake) the head is the old head plus the direction.
C4_HeadMovesByDirection ==
  [][(Tick /\ AheadInGrid /\ ~AheadOnSnake) =>
       /\ snake'[1].x = snake[1].x + direction.x
       /\ snake'[1].y = snake[1].y + direction.y]_vars

\* C4's case has happened: two ticks down from the start cell, nothing eaten.
C4_Witness ==
  /\ gameStarted /\ ~gameOver /\ countdown = 0
  /\ snake = <<Pos(10, 12)>>
  /\ direction = Pos(0, 1)

\* C5: in every reachable state every segment of the snake is inside the
\* grid: 0 <= x < 20 and 0 <= y < 20.
C5_SnakeInsideGrid ==
  \A i \in 1..Len(snake) :
    /\ 0 <= snake[i].x /\ snake[i].x < GRID_SIZE
    /\ 0 <= snake[i].y /\ snake[i].y < GRID_SIZE

\* C5's case has happened: a grown snake ran up to the right wall, and the
\* tick that would leave the grid ended the game.
C5_Witness ==
  /\ gameOver
  /\ Len(snake) = 2
  /\ snake[1].x = GRID_SIZE - 1
  /\ direction = Pos(1, 0)

\* C6: a tick whose new head is outside the grid on either axis, or on any
\* segment of the snake, sets gameOver and leaves the snake, the score and
\* the foods exactly as they were.
C6_CollisionFreezes ==
  [][(Tick /\ (~AheadInGrid \/ AheadOnSnake)) =>
       /\ gameOver'
       /\ snake' = snake
       /\ score' = score
       /\ foods' = foods]_vars

\* C6's case has happened: the snake, moving left with its head at x = 0,
\* was ended by the next tick.
C6_Witness ==
  /\ gameOver
  /\ snake[1].x = 0
  /\ direction = Pos(-1, 0)
  /\ ~hasMoved

\* C7: startGame in GameOver yields score 0, the snake of the single segment
\* (10,10), countdown 3, gameOver false and exactly 3 foods.
C7_RestartResets ==
  [][(gameOver /\ StartGame) =>
       /\ score' = 0
       /\ snake' = <<Pos(10, 10)>>
       /\ countdown' = 3
       /\ gameOver' = FALSE
       /\ Len(foods') = 3]_vars

\* C7's case has happened: a restart has acted.  A food lies on (10,10),
\* which only a restart does, the first start keeping the foods off that cell.
C7_Witness ==
  /\ gameStarted /\ ~gameOver
  /\ countdown = 3
  /\ score = 0
  /\ snake = <<Pos(10, 10)>>
  /\ \E i \in 1..Len(foods) : foods[i] = Pos(10, 10)

\* C8: in every reachable state no food lies on a segment of the snake.
C8_FoodsOffSnake ==
  \A i \in 1..Len(foods) : \A j \in 1..Len(snake) : foods[i] # snake[j]

\* C9: in every reachable state with gameOver false the snake has at least
\* one segment and holds no position twice.
C9_SnakeHasNoDuplicates ==
  ~gameOver =>
    /\ Len(snake) >= 1
    /\ \A i, j \in 1..Len(snake) : i # j => snake[i] # snake[j]

\* C9's case has happened: a snake of three segments is alive after a turn.
C9_Witness ==
  /\ ~gameOver
  /\ Len(snake) = 3
  /\ snake[1].x # snake[3].x
  /\ snake[1].y # snake[3].y

\* C10: a direction input, from the keyboard or from an on-screen button,
\* that comes while the game is over, while the countdown runs, or after a
\* direction change was accepted since the last tick leaves the direction
\* unchanged.
C10_BlockedInputIgnored ==
  [][(DirectionInput /\ (gameOver \/ countdown > 0 \/ hasMoved)) =>
       direction' = direction]_vars

\* C11: no tick runs while the game has not started, while the countdown
\* runs or while the game is over: every tick is taken with gameStarted
\* true, gameOver false and countdown 0, and the snake, the score and the
\* foods are changed by nothing but such a tick (and the reset of startGame).
C11_TicksOnlyWhileRunning ==
  [][/\ Tick => (gameStarted /\ ~gameOver /\ countdown = 0)
     /\ (snake' # snake \/ score' # score \/ foods' # foods) =>
          \/ Tick /\ gameStarted /\ ~gameOver /\ countdown = 0
          \/ StartGame]_vars

\* C11's case has happened: after a restart the countdown has run down to 1
\* and the snake still rests on the start cell.
C11_Witness ==
  /\ gameStarted /\ ~gameOver
  /\ countdown = 1
  /\ snake = <<Pos(10, 10)>>
  /\ \E i \in 1..Len(foods) : foods[i] = Pos(10, 10)

\* C12: after every start and restart the countdown goes 3, 2, 1, 0, one
\* step per firing of the countdown interval, and never below 0; the game
\* then reaches Running (countdown 0, gameOver false); at 0 the interval is
\* stopped and the countdown stays 0 until the next startGame.
C12_CountdownRunsDown ==
  /\ [](countdown >= 0 /\ countdown <= 3)
  /\ [](countdown = 0 => ~countdownTimer)
  /\ [][(countdown' = 3 /\ countdownTimer') \/ ~StartGame]_vars
  /\ [][CountdownTick => (countdown > 0 /\ countdown' = countdown - 1)]_vars
  /\ [][countdown' # countdown => (CountdownTick \/ StartGame)]_vars
  /\ [][countdown = 0 => (countdown' = 0 \/ StartGame)]_vars
  /\ (gameStarted /\ countdown > 0) ~> (gameStarted /\ countdown = 0 /\ ~gameOver)

\* C12's case has happened: the countdown of a restart has run out, the
\* interval is stopped and the game is running.
C12_Witness ==
  /\ gameStarted /\ ~gameOver
  /\ countdown = 0
  /\ ~countdownTimer
  /\ snake = <<Pos(10, 10)>>
  /\ \E i \in 1..Len(foods) : foods[i] = Pos(10, 10)

\* C13: when the component is torn down or the game is restarted, every
\* timer started before is cancelled: after the teardown neither the game
\* loop nor the countdown interval fires, and after a restart the only timer
\* set is the countdown interval that startGame has just started.
C13_TimersCancelled ==
  /\ [][~mounted => ~(CountdownTick \/ Tick)]_vars
  /\ [][(countdownTimer' /\ ~(gameStarted' /\ ~gameOver' /\ countdown' = 0))
        \/ ~StartGame]_vars

\* C14: every spawned food (the 3 foods of initializeFoods, the 1 or 2 foods
\* added after eating) lies on a cell held neither by the snake nor by any
\* other food present after the spawn.
C14_SpawnOnFreeCell ==
  [][(StartGame \/ (Tick /\ score' # score)) =>
       LET first == IF score' = 0 THEN 1 ELSE Len(foods)
       IN \A k \in first..Len(foods') :
            /\ \A j \in 1..Len(snake') : foods'[k] # snake'[j]
            /\ \A j \in 1..Len(foods') : j # k => foods'[j] # foods'[k]]_vars

\* C15: food spawning always ends: in every reachable state in which
\* getRandomPosition is called (by startGame through initializeFoods, by an
\* eating tick that adds food) a cell of the grid is outside the occupied
\* positions passed to it.
C15_SpawnFindsFreeCell ==
  /\ (mounted /\ (~gameStarted \/ gameOver)) =>
       \E p \in Grid : \A i \in 1..Len(snake) : snake[i] # p
  /\ (/\ mounted /\ gameStarted /\ ~gameOver /\ countdown = 0
      /\ AheadInGrid /\ ~AheadOnSnake /\ AheadOnFood
      /\ Len(foods) - 1 < MAX_FOOD_COUNT) =>
       \E p \in Grid :
         /\ p # Ahead
         /\ \A i \in 1..(Len(snake) - 1) : snake[i] # p
         /\ \A i \in 1..Len(foods) : i # findIndex(foods, Ahead) => foods[i] # p

\* C16: gameOver becomes true only by a tick of the running game whose new
\* head is outside the grid or on the snake, and while gameOver is true no
\* step other than startGame changes the snake, the foods, the score or the
\* direction, and gameOver stays true.
C16_GameOverFrozen ==
  /\ [][(~gameOver /\ gameOver') =>
          (Tick /\ gameStarted /\ countdown = 0 /\ (~AheadInGrid \/ AheadOnSnake))]_vars
  /\ [][gameOver =>
          \/ StartGame
          \/ gameOver' /\ UNCHANGED <<snake, foods, score, direction>>]_vars

\* C17: a key press that is not an arrow key, or is the arrow key of the
\* direction opposite to the current one, leaves the direction and the
\* hasMoved flag as they were (the handler changes nothing else).
C17_InvalidKeyIgnored ==
  [][\A key \in Keys :
       (/\ NearStart
        /\ handleKeyPress(key)
        /\ \/ key \notin {"ArrowUp", "ArrowDown", "ArrowLeft", "ArrowRight"}
           \/ KeyDirection(key) = getOppositeDirection(direction)) =>
         UNCHANGED <<direction, hasMoved>>]_vars

\* C18: with the keyboard as the only input, at most one direction change is
\* accepted between two successful ticks (a change is accepted only with
\* hasMoved false and sets it, and only a successful tick or startGame
\* clears it), an accepted change is never the opposite of the direction it
\* replaces, and so a snake of two or more segments never heads into its
\* own second segment.
C18_OneTurnPerTick ==
  /\ [](Len(snake) >= 2 => Ahead # snake[2])
  /\ [][direction' # direction =>
          \/ StartGame
          \/ /\ KeyDown
             /\ ~hasMoved /\ hasMoved'
             /\ direction' # getOppositeDirection(direction)]_vars
  /\ [][(hasMoved /\ ~hasMoved') => (StartGame \/ (Tick /\ ~gameOver'))]_vars
  /\ [][Tick => direction' = direction]_vars

\* C18's case has happened: a snake of two segments that moved right has
\* had a turn upwards accepted, and further key presses wait for the tick.
C18_Witness ==
  /\ ~gameOver
  /\ hasMoved
  /\ snake = <<Pos(11, 10), Pos(10, 10)>>
  /\ direction = Pos(0, -1)

\* C19: in every reachable state the score is the length of the snake
\* minus 1.
C19_ScoreIsLengthMinusOne == score = Len(snake) - 1

\* C19's case has happened: two foods were eaten, the snake has three
\* segments, and a colliding tick has ended the game.
C19_Witness ==
  /\ gameOver
  /\ score = 2
  /\ Len(snake) = 3

\* C20: once the game has been started the food list holds at least
\* INITIAL_FOOD_COUNT foods.
C20_FoodNeverRunsOut == gameStarted => Len(foods) >= INITIAL_FOOD_COUNT

\* C20's case has happened: two foods were eaten, each replaced by one food,
\* and three foods are on the board of the running game.
C20_Witness ==
  /\ gameStarted /\ ~gameOver
  /\ score = 2
  /\ Len(foods) = INITIAL_FOOD_COUNT

====
